---- MODULE Spec2Model ----
(***************************************************************************)
(* A model of notebook.ipynb: the sequence of commands the notebook issues *)
(* (code cells run by the kernel, shell transcripts of its markdown cells  *)
(* typed by the reader in a terminal), the artifacts                       *)
(* they hand to each other, the pure function create_text_field, and the   *)
(* acceleration formula.                                                   *)
(***************************************************************************)
EXTENDS Naturals, Integers, Sequences, FiniteSets, TLC

VARIABLES
    status,    \* step -> "pending" | "running" | "ok" | "failed"
    dropped,   \* TRUE once the kernel has dropped the cells queued behind a
               \* cell that raised
    queued,    \* TRUE when the code cells are queued ahead (Run All), FALSE when
               \* the reader runs every step by hand in the order of the document
    files,     \* local path -> content
    hub,       \* remote repository -> content
    serving,   \* the server step whose container answers on localhost:8080, or "none"
    issued,    \* step -> the commands issued for it, in order
    readers,   \* artifact -> the steps that were given it as an input, in order
    writers,   \* artifact -> the steps that wrote it, in order
    dataset,   \* the hub dataset: [train : Seq(example), test : Seq(example)]
    train_file,\* the records json.dump wrote to train_dataset.json
    td,        \* the rows of dataset["test"].map(create_text_field)
    hub_data,  \* hub dataset repository -> the rows pushed to it
    benchmarked, \* the prompts guidellm read through --data
    dstage,    \* the data-preparation snippets that have run
    gen, skip, loops, \* inputs of the acceleration formula
    acc        \* the acceleration in hundredths, or -1 before it is computed

pipeVars == <<status, dropped, queued, files, hub, serving, issued, readers, writers>>
dataVars == <<dataset, train_file, td, hub_data, benchmarked, dstage>>
accVars  == <<gen, skip, loops, acc>>
vars     == <<pipeVars, dataVars, accVars>>

----------------------------------------------------------------------------
(* The steps, in the order of the document.                                *)

StepOrderSwapped ==
    << "pip_install", "dataset", "upload", "train", "server_medusa",
       "test_request", "pip_guidellm", "bench_medusa", "server_baseline",
       "bench_baseline" >>

StepOrder ==
    << "pip_install", "dataset", "train", "upload", "server_medusa",
       "test_request", "pip_guidellm", "bench_medusa", "server_baseline",
       "bench_baseline" >>

Steps == { StepOrder[i] : i \in 1..Len(StepOrder) }

IndexOf(s) == CHOOSE i \in 1..Len(StepOrder) : StepOrder[i] = s

\* How a step is run: "python" is a Python code cell, "shell_escape" a cell
\* of !command or %pip lines, "cell_bash" a %%bash cell, "terminal" a shell
\* transcript of a markdown cell, "server" the docker run transcript.
Kind(s) ==
    CASE s \in {"pip_install", "train", "upload", "pip_guidellm"} -> "shell_escape"
      [] s = "dataset"                                            -> "python"
      [] s = "test_request"                                       -> "cell_bash"
      [] s \in {"server_medusa", "server_baseline"}               -> "server"
      [] OTHER                                                    -> "terminal"

ServerSteps == { s \in Steps : Kind(s) = "server" }

\* The code cells are executed by the kernel; the transcripts of the
\* markdown cells are no cells of its queue.
IsCodeCell(s) == Kind(s) \in {"python", "shell_escape", "cell_bash"}

\* A failing Python cell raises, and a failing %%bash cell raises
\* CalledProcessError: the cells queued after it are dropped (a cell run by
\* hand afterwards is executed all the same).  The exit status of a !command
\* or %pip line raises nothing.
RaisesPythonOnly(s) == Kind(s) = "python"

Raises(s) == Kind(s) \in {"python", "cell_bash"}

----------------------------------------------------------------------------
(* The command lines, with the identifiers they pass.                      *)

DatasetFile        == "train_dataset.json"
ModelNameOrPath    == "philschmid/code-llama-3-1-8b-text-to-sql"
DataPath           == "train_dataset.json"
OutputDir          == "code_llama31"
Folder             == "code_llama31_medusa"
Repo               == "philschmid/code-llama-3-1-8b-text-to-sql-medusa"
BaselineModelId    == "philschmid/code-llama-3-1-8b-text-to-sql"
BenchModel         == "philschmid/code-llama-3-1-8b-text-to-sql-medusa"
BenchData          == "philschmid/text-to-sql-dataset-medusa-test-chatml"
MedusaOutputPath   == "benchmark_medusa.json"
PushedDataset      == "philschmid/text-to-sql-dataset-medusa-test-chatml"
NoArg              == "-"

MedusaModelIdBase == "philschmid/code-llama-3-1-8b-text-to-sql"

MedusaModelId == "philschmid/code-llama-3-1-8b-text-to-sql-medusa"

BaselineOutputPathKept == "benchmark_medusa.json"

\* "make sure to change the output path to benchmark_baseline.json"
BaselineOutputPath == "benchmark_baseline.json"

Cmd(file, data_path, output_dir, folder, repo, model_id, model, data, output_path) ==
    [ file |-> file, data_path |-> data_path, output_dir |-> output_dir,
      folder |-> folder, repo |-> repo, model_id |-> model_id,
      model |-> model, data |-> data, output_path |-> output_path ]

Command(s) ==
    CASE s = "dataset" ->
           \* open("train_dataset.json", "w")
           Cmd(DatasetFile, NoArg, NoArg, NoArg, NoArg, NoArg, NoArg, NoArg, NoArg)
      [] s = "train" ->
           \* torchrun ... --model_name_or_path --data_path --output_dir
           Cmd(NoArg, DataPath, OutputDir, NoArg, NoArg, NoArg, ModelNameOrPath, NoArg, NoArg)
      [] s = "upload" ->
           \* python -m medusa.hf_utils --folder --repo
           Cmd(NoArg, NoArg, NoArg, Folder, Repo, NoArg, NoArg, NoArg, NoArg)
      [] s = "server_medusa" ->
           \* docker run ... -e MODEL_ID=
           Cmd(NoArg, NoArg, NoArg, NoArg, NoArg, MedusaModelId, NoArg, NoArg, NoArg)
      [] s = "bench_medusa" ->
           \* guidellm --model --data --output-path
           Cmd(NoArg, NoArg, NoArg, NoArg, NoArg, NoArg, BenchModel, BenchData,
               MedusaOutputPath)
      [] s = "server_baseline" ->
           \* "the same docker run command but replace our Model id"
           Cmd(NoArg, NoArg, NoArg, NoArg, NoArg, BaselineModelId, NoArg, NoArg, NoArg)
      [] s = "bench_baseline" ->
           \* "rerun our benchmark, make sure to change the output path"
           Cmd(NoArg, NoArg, NoArg, NoArg, NoArg, NoArg, BenchModel, BenchData,
               BaselineOutputPath)
      [] OTHER ->
           \* pip install, curl: no identifier of the pipeline
           Cmd(NoArg, NoArg, NoArg, NoArg, NoArg, NoArg, NoArg, NoArg, NoArg)

\* The local paths and the hub repositories the commands name.
Paths == { DatasetFile, DataPath, OutputDir, Folder, MedusaOutputPath, BaselineOutputPath }
Repos == { ModelNameOrPath, Repo, MedusaModelId, BaselineModelId, BenchModel,
           PushedDataset, BenchData }

\* What is on the hub before the notebook runs: the fine-tuned model, and
\* the test set the create_text_field snippet pushed ("It was used to
\* create the test set").
Given == { ModelNameOrPath, PushedDataset }

\* The artifacts the pipeline itself produces.
Artifacts == (Paths \cup Repos) \ Given

Content(kind, of) == [ kind |-> kind, of |-> of ]
Absent == Content("absent", "-")

Stored(a) == IF a \in Paths THEN files[a] ELSE hub[a]
Present(a) == Stored(a) # Absent

\* What an interrupted write leaves behind: open(..., "w") has created the
\* file and nothing was written to it, or a part of the artifact is there.
Empty == Content("empty", "-")
Partial == Content("partial", "-")
Usable(a) == Present(a) /\ Stored(a) \notin { Empty, Partial }

\* The artifacts a step's command names as its input.
Inputs(s) ==
    LET c == Command(s) IN
    CASE s = "train"  -> { c.data_path, c.model }
      [] s = "upload" -> { c.folder }
      [] s \in ServerSteps -> { c.model_id }
      [] s \in {"bench_medusa", "bench_baseline"} -> { c.model, c.data }
      [] OTHER -> {}

OutputFirstReport(s) ==
    CASE s = "dataset" -> { Command(s).file }
      [] s = "train"   -> { Command(s).output_dir, Command("upload").folder }
      [] s = "upload"  -> { Command(s).repo }
      [] s \in {"bench_medusa", "bench_baseline"} -> { Command("bench_medusa").output_path }
      [] OTHER -> {}

\* The artifacts a step's command may write.  train_legacy.py belongs to
\* the Medusa checkout, not to the notebook: the notebook tells it
\* --output_dir code_llama31 and takes the checkpoint to upload from
\* code_llama31_medusa; in which of the two a run of the script leaves its
\* checkpoint is not decided by the notebook.
Output(s) ==
    LET c == Command(s) IN
    CASE s = "dataset" -> { c.file }
      [] s = "train"   -> { c.output_dir, Command("upload").folder }
      [] s = "upload"  -> { c.repo }
      [] s \in {"bench_medusa", "bench_baseline"} -> { c.output_path }
      [] OTHER -> {}

\* The one artifact a run of the step writes, "-" for a step that writes none.
Targets(s) == IF Output(s) = {} THEN { NoArg } ELSE Output(s)

\* Steps that talk to http://localhost:8080.
NeedsServer(s) == s \in {"test_request", "bench_medusa", "bench_baseline"}

\* What a step needs in order to succeed.
CanSucceed(s) ==
    /\ \A a \in Inputs(s) : Usable(a)
    /\ NeedsServer(s) => serving # "none"

ServedModel == IF serving = "none" THEN "-" ELSE Command(serving).model_id

Produced(s) ==
    CASE s = "dataset" -> Content("messages", "train")
      [] s = "train"   -> Content("checkpoint", Command(s).model)
      [] s = "upload"  -> files[Command(s).folder]
      [] OTHER         -> Content("report", ServedModel)

----------------------------------------------------------------------------
(* The run.                                                                *)

InitPipe ==
    /\ status = [s \in Steps |-> "pending"]
    /\ dropped = FALSE
    /\ queued \in BOOLEAN
    /\ files = [p \in Paths |-> Absent]
    /\ hub = [r \in Repos |-> IF r \in Given THEN Content("given", r) ELSE Absent]
    /\ serving = "none"
    /\ issued = [s \in Steps |-> << >>]
    /\ readers = [a \in Artifacts |-> << >>]
    /\ writers = [a \in Artifacts |-> << >>]

Completed(s) == status[s] \in {"ok", "failed"}

\* When the reader moves on from step p to the next one: a cell or a
\* terminal command has returned; the docker run command has either given
\* up or its container is answering ("After our container is running").
MovedOnFromStarted(p) == status[p] # "pending"

MovedOnFrom(p) ==
    IF Kind(p) = "server"
    THEN Completed(p) \/ (status[p] = "running" /\ serving = p)
    ELSE Completed(p)

\* The steps that come before s for whoever executes s.  The kernel runs
\* the code cells one after the other, in the order of the document, and
\* the reader types the transcripts in that order; only a reader who also
\* runs the cells by hand keeps the two in step with each other.
Before(s) ==
    { p \in Steps : /\ IndexOf(p) < IndexOf(s)
                     /\ (queued => IsCodeCell(p) = IsCodeCell(s)) }

Start(s) ==
    /\ status[s] = "pending"
    /\ IsCodeCell(s) => ~dropped
    /\ \A p \in Before(s) : MovedOnFrom(p)
    /\ status' = [status EXCEPT ![s] = "running"]
    /\ issued' = [issued EXCEPT ![s] = Append(@, Command(s))]
    /\ readers' = [a \in Artifacts |->
                     IF a \in Inputs(s) THEN Append(readers[a], s) ELSE readers[a]]
    /\ UNCHANGED <<dropped, files, hub, serving, writers, queued, dataVars, accVars>>

Write(s, o, content) ==
    /\ files' = [p \in Paths |-> IF p = o THEN content ELSE files[p]]
    /\ hub' = [r \in Repos |-> IF r = o THEN content ELSE hub[r]]
    /\ writers' = [a \in Artifacts |-> IF a = o THEN Append(writers[a], s) ELSE writers[a]]

FinishOk(s) ==
    /\ Kind(s) # "server"
    /\ status[s] = "running"
    /\ CanSucceed(s)
    /\ status' = [status EXCEPT ![s] = "ok"]
    /\ \E o \in Targets(s) : Write(s, o, Produced(s))
    /\ UNCHANGED <<dropped, serving, issued, readers, queued, dataVars, accVars>>

\* What a failing step may leave at its output: nothing (it failed before
\* it wrote: load_dataset raised, the script did not start), an empty file
\* (the dataset cell failed after open()), a part of the artifact, or the
\* whole of it (the failure came after the write: an interrupt after
\* json.dump returned, a non-zero exit after the last save).
LeftByFailure(s) ==
    IF Output(s) = {}
    THEN { Absent }
    ELSE { Absent, Partial }
           \cup (IF s = "dataset" THEN { Empty } ELSE {})
           \cup (IF CanSucceed(s) THEN { Produced(s) } ELSE {})

\* A step may fail for reasons outside the notebook.  A raising cell drops
\* the cells queued behind it; the exit status of a !command drops nothing,
\* and nothing is queued behind a cell that is run by hand.
FinishFail(s) ==
    /\ Kind(s) # "server"
    /\ status[s] = "running"
    /\ status' = [status EXCEPT ![s] = "failed"]
    /\ dropped' = (dropped \/ (queued /\ Raises(s)))
    /\ \E o \in Targets(s), left \in LeftByFailure(s) :
          IF left = Absent
          THEN UNCHANGED <<files, hub, writers>>
          ELSE Write(s, o, left)
    /\ UNCHANGED <<serving, issued, readers, queued, dataVars, accVars>>

\* The container has loaded MODEL_ID and answers on port 8080.
ServerReady(s) ==
    /\ Kind(s) = "server"
    /\ status[s] = "running"
    /\ serving = "none"
    /\ CanSucceed(s)
    /\ serving' = s
    /\ UNCHANGED <<status, dropped, files, hub, issued, readers, writers, queued, dataVars, accVars>>

\* docker run gives up (model missing, port 8080 taken) or the container dies.
ServerFail(s) ==
    /\ Kind(s) = "server"
    /\ status[s] = "running"
    /\ status' = [status EXCEPT ![s] = "failed"]
    /\ serving' = IF serving = s THEN "none" ELSE serving
    /\ UNCHANGED <<dropped, files, hub, issued, readers, writers, queued, dataVars, accVars>>

\* The steps that are run against a server step's container: those that
\* follow it in the document, up to the next docker run.
ClientsOf(s) ==
    { c \in Steps : /\ NeedsServer(c)
                     /\ IndexOf(s) < IndexOf(c)
                     /\ \A o \in ServerSteps : ~(IndexOf(s) < IndexOf(o) /\ IndexOf(o) < IndexOf(c)) }

\* The reader stops the container once the benchmark run against it has
\* returned and no cell is calling it; only then does the docker run
\* command return.
ServerStop(s) ==
    /\ Kind(s) = "server"
    /\ status[s] = "running"
    /\ serving = s
    /\ \A c \in ClientsOf(s) : IF IsCodeCell(c) THEN status[c] # "running" ELSE Completed(c)
    /\ status' = [status EXCEPT ![s] = "ok"]
    /\ serving' = "none"
    /\ UNCHANGED <<dropped, files, hub, issued, readers, writers, queued, dataVars, accVars>>


PipeNext ==
    \/ \E s \in Steps : Start(s)
    \/ \E s \in Steps : FinishOk(s)
    \/ \E s \in Steps : FinishFail(s)
    \/ \E s \in Steps : ServerReady(s)
    \/ \E s \in Steps : ServerFail(s)
    \/ \E s \in Steps : ServerStop(s)

----------------------------------------------------------------------------
(* The data preparation: the dataset cell and the create_text_field        *)
(* snippet.                                                                *)

MaxExamples == 2

Questions == { "q1", "q2" }
Answers   == { "a1", "a2" }

Msg(role, content) == [ role |-> role, content |-> content ]

\* An example of philschmid/text-to-sql-dataset-medusa: a row whose
\* "messages" column holds a system, a user and an assistant message.
Examples ==
    { [ messages |-> << Msg("system", "schema"), Msg("user", q), Msg("assistant", a) >> ] :
        q \in Questions, a \in Answers }

Splits == UNION { [1..n -> Examples] : n \in 1..MaxExamples }

\* dataset[split]["messages"]: the column, one record per row.
Column(split) == [ i \in 1..Len(split) |-> split[i].messages ]

SavedSplitTest == "test"

SavedSplit == "train"

MappedSplit == "test"

\* seq[lo:hi] of Python, for 0 <= lo <= hi.
Slice(seq, lo, hi) ==
    LET top == IF hi < Len(seq) THEN hi ELSE Len(seq)
    IN  IF lo >= top THEN << >> ELSE SubSeq(seq, lo + 1, top)

RECURSIVE apply_chat_template(_)
\* tokenizer.apply_chat_template(messages, tokenize=False): the messages
\* rendered one after the other, each between its delimiters.
apply_chat_template(messages) ==
    IF messages = << >> THEN << >>
    ELSE << "<|im_start|>", Head(messages).role, Head(messages).content, "<|im_end|>" >>
         \o apply_chat_template(Tail(messages))

create_text_field_all(samples) ==
    [ text |-> apply_chat_template(Slice(samples.messages, 0, 3)) ]

create_text_field(samples) ==
    [ text |-> apply_chat_template(Slice(samples.messages, 0, 2)) ]

\* Dataset.map: the returned columns are written into the row.
MapRow(row, out) ==
    [ k \in DOMAIN row \cup DOMAIN out |-> IF k \in DOMAIN out THEN out[k] ELSE row[k] ]

DataRepos == { PushedDataset, BenchData }

InitData ==
    /\ dataset \in [ train : Splits, test : Splits ]
    /\ train_file = << >>
    /\ td = << >>
    /\ hub_data = [ r \in DataRepos |-> << >> ]
    /\ benchmarked = << >>
    /\ dstage = {}

Saved == dstage \cap {"save", "save_failed"} # {}

\* with open("train_dataset.json", "w") as f: json.dump(list(...), f)
SaveTrain ==
    /\ ~Saved
    /\ train_file' = Column(dataset[SavedSplit])
    /\ dstage' = dstage \cup {"save"}
    /\ UNCHANGED <<dataset, td, hub_data, benchmarked, pipeVars, accVars>>

\* The same cell failing inside the with block, or when the file is
\* flushed and closed: the file holds none, some or all of the rows.
SaveTrainFail ==
    /\ ~Saved
    /\ \E n \in 0..Len(dataset[SavedSplit]) :
          train_file' = SubSeq(Column(dataset[SavedSplit]), 1, n)
    /\ dstage' = dstage \cup {"save_failed"}
    /\ UNCHANGED <<dataset, td, hub_data, benchmarked, pipeVars, accVars>>

\* td = dataset["test"].map(create_text_field)
MapTest ==
    /\ "map" \notin dstage
    /\ td' = [ i \in 1..Len(dataset[MappedSplit]) |->
                 MapRow(dataset[MappedSplit][i],
                        create_text_field(dataset[MappedSplit][i])) ]
    /\ dstage' = dstage \cup {"map"}
    /\ UNCHANGED <<dataset, train_file, hub_data, benchmarked, pipeVars, accVars>>

Pushed == dstage \cap {"push", "push_failed"} # {}

\* td.push_to_hub("philschmid/text-to-sql-dataset-medusa-test-chatml"): the
\* statement after the map; when it returns the repository holds the rows.
PushToHub ==
    /\ "map" \in dstage
    /\ ~Pushed
    /\ hub_data' = [ hub_data EXCEPT ![PushedDataset] = td ]
    /\ dstage' = dstage \cup {"push"}
    /\ UNCHANGED <<dataset, train_file, td, benchmarked, pipeVars, accVars>>

\* The same statement raising (hub unreachable, no token): the repository
\* is unchanged.
PushToHubFail ==
    /\ "map" \in dstage
    /\ ~Pushed
    /\ dstage' = dstage \cup {"push_failed"}
    /\ UNCHANGED <<dataset, train_file, td, hub_data, benchmarked, pipeVars, accVars>>

\* guidellm --data <repository> --data-type transformers: the prompts are
\* the text column of the repository's rows.
ReadBenchData ==
    /\ "read" \notin dstage
    /\ hub_data[BenchData] # << >>
    /\ benchmarked' = [ i \in 1..Len(hub_data[BenchData]) |-> hub_data[BenchData][i].text ]
    /\ dstage' = dstage \cup {"read"}
    /\ UNCHANGED <<dataset, train_file, td, hub_data, pipeVars, accVars>>

DataNext == SaveTrain \/ SaveTrainFail \/ MapTest \/ PushToHub \/ PushToHubFail \/ ReadBenchData

----------------------------------------------------------------------------
(* The acceleration formula and its worked example.                        *)

MaxTokens == 4

ExampleGenerated == 17687
ExampleSkipped   == 27101
ExampleLoops     == 27101

\* x / y to two decimal places, in hundredths.
Hundredths(x, y) == ((x * 1000) \div y + 5) \div 10

AccelerationSkippedOnly(generated, skipped, iterations) ==
    Hundredths(skipped, iterations)

\* Acceleration = (Total Tokens (Generated + Skipped)) / (Number of Loops/Iterations)
Acceleration(generated, skipped, iterations) ==
    Hundredths(generated + skipped, iterations)

InitAcc ==
    /\ gen \in 0..MaxTokens \cup {ExampleGenerated}
    /\ skip \in 0..MaxTokens \cup {ExampleSkipped}
    /\ loops \in 1..MaxTokens \cup {ExampleLoops}
    /\ acc = -1

Compute ==
    /\ acc = -1
    /\ acc' = Acceleration(gen, skip, loops)
    /\ UNCHANGED <<gen, skip, loops, pipeVars, dataVars>>

AccNext == Compute

----------------------------------------------------------------------------
(* The specifications.                                                     *)

DataIdle ==
    /\ dataset = [ train |-> << >>, test |-> << >> ]
    /\ train_file = << >>
    /\ td = << >>
    /\ hub_data = [ r \in DataRepos |-> << >> ]
    /\ benchmarked = << >>
    /\ dstage = {}

AccIdle ==
    /\ gen = ExampleGenerated
    /\ skip = ExampleSkipped
    /\ loops = ExampleLoops
    /\ acc = -1

Init == InitPipe /\ DataIdle /\ AccIdle
Next == PipeNext
Spec == Init /\ [][Next]_vars

DataSpecInit == InitPipe /\ InitData /\ AccIdle
SpecData == DataSpecInit /\ [][DataNext]_vars

AccelSpecInit == InitPipe /\ DataIdle /\ InitAcc
SpecAccel == AccelSpecInit /\ [][AccNext]_vars

----------------------------------------------------------------------------
(* Properties of the run.                                                  *)

Started(s) == status[s] # "pending"
Starts(s) == status[s] = "pending" /\ status'[s] = "running"
Issued(s) == issued[s] # << >>

\* The order the notebook narrates, and the code cells among it.
Narrated == << "dataset", "train", "upload", "server_medusa", "test_request", "bench_medusa" >>

NarratedCells == << "dataset", "train", "upload", "test_request" >>

InNarratedOrder ==
    \A i \in 1..(Len(Narrated) - 1) : Started(Narrated[i + 1]) => Started(Narrated[i])

\* C1 as stated: the steps run in the fixed order dataset fetch -> training
\* -> upload -> server -> test request -> benchmark, and no step is started
\* before its input artifact has been produced.
C1_Original ==
    /\ []InNarratedOrder
    /\ [][\A s \in Steps : Starts(s) => CanSucceed(s)]_vars

\* C1, amended: in a Run All the code cells are executed in the order
\* dataset fetch -> training -> upload -> test request, and none of them
\* is started before the cell before it has returned.
C1_OrderedCells ==
    /\ [](queued =>
            \A i, j \in 1..Len(NarratedCells) :
                (i < j /\ Started(NarratedCells[j])) => Started(NarratedCells[i]))
    /\ [][queued =>
            \A i, j \in 1..Len(NarratedCells) :
                (i < j /\ Starts(NarratedCells[j])) => Completed(NarratedCells[i])]_vars

\* The test request of a Run All is running and no docker run was issued,
\* after a training job that failed.
C1_Witness ==
    /\ queued
    /\ status["train"] = "failed"
    /\ status["test_request"] = "running"
    /\ issued["server_medusa"] = << >>

\* C2 as stated: every consuming step is given the identifier its producing
\* step wrote; in particular --folder equals --output_dir.
C2_Original ==
    /\ (Issued("train") /\ Issued("dataset")) =>
          issued["train"][1].data_path = issued["dataset"][1].file
    /\ (Issued("upload") /\ Issued("train")) =>
          issued["upload"][1].folder = issued["train"][1].output_dir
    /\ (Issued("server_medusa") /\ Issued("upload")) =>
          issued["server_medusa"][1].model_id = issued["upload"][1].repo
    /\ (Issued("bench_medusa") /\ Issued("upload")) =>
          issued["bench_medusa"][1].model = issued["upload"][1].repo

\* C2, amended: --data_path is the file the dataset cell opens, and no other
\* step writes it; MODEL_ID and --model are the --repo of the upload, and no
\* other step writes it; --folder is not the --output_dir of the training
\* job but that name with "_medusa" appended.
C2_HandOffs ==
    /\ (Issued("train") /\ Issued("dataset")) =>
          /\ issued["train"][1].data_path = issued["dataset"][1].file
          /\ writers[issued["train"][1].data_path] \in { << >>, << "dataset" >> }
    /\ (Issued("upload") /\ Issued("train")) =>
          /\ issued["upload"][1].folder = issued["train"][1].output_dir \o "_medusa"
          /\ issued["upload"][1].folder # issued["train"][1].output_dir
    /\ (Issued("server_medusa") /\ Issued("upload")) =>
          /\ issued["server_medusa"][1].model_id = issued["upload"][1].repo
          /\ writers[issued["server_medusa"][1].model_id] \in { << >>, << "upload" >> }
    /\ (Issued("bench_medusa") /\ Issued("upload")) =>
          issued["bench_medusa"][1].model = issued["upload"][1].repo

C2_Witness ==
    /\ Issued("dataset") /\ Issued("train") /\ Issued("upload")
    /\ Issued("server_medusa") /\ Issued("bench_medusa")
    /\ writers["train_dataset.json"] = << "dataset" >>
    /\ writers["philschmid/code-llama-3-1-8b-text-to-sql-medusa"] = << "upload" >>

OneCommandPerStep ==
    \A s \in Steps : Len(issued[s]) = (IF Started(s) THEN 1 ELSE 0)

External == { "dataset", "train", "upload", "server_medusa", "test_request",
              "bench_medusa", "server_baseline", "bench_baseline" }

\* C4 as stated: once an external step has failed, no later step is started.
C4_Original ==
    [][\A s \in External, t \in Steps :
         (status[s] = "failed" /\ IndexOf(s) < IndexOf(t)) => ~Starts(t)]_vars

\* The code cells, in the order of the document.
Cells == SelectSeq(StepOrder, IsCodeCell)

\* C4, amended: in a Run All a failure of the dataset-fetch cell or of the
\* test-request cell drops the cells behind it (no later code cell is
\* executed); a failure of a !command or %pip cell (training, upload) drops
\* nothing, and nor does any failure when the cells are run by hand: the
\* next code cell can still be executed; the terminal commands are never
\* prevented by a failed cell.
C4_RaisingCellsAbort ==
    /\ queued =>
          \A i, j \in 1..Len(Cells) :
              (i < j /\ Cells[i] \in {"dataset", "test_request"}
                     /\ status[Cells[i]] = "failed") => status[Cells[j]] = "pending"
    /\ \A i \in 1..(Len(Cells) - 1) :
          (/\ status[Cells[i]] = "failed"
           /\ status[Cells[i + 1]] = "pending"
           /\ \A p \in Before(Cells[i + 1]) : MovedOnFrom(p)
           /\ ~queued \/ Cells[i] \in {"pip_install", "train", "upload"})
              => ENABLED Start(Cells[i + 1])
    /\ \A t \in Steps \ { Cells[i] : i \in 1..Len(Cells) } :
          (/\ \E s \in Steps : status[s] = "failed" /\ IsCodeCell(s)
           /\ status[t] = "pending"
           /\ \A p \in Before(t) : MovedOnFrom(p))
              => ENABLED Start(t)

\* A Run All in which the upload failed, the test request then ran and
\* failed, and the benchmark was still run in the terminal.
C4_Witness ==
    /\ queued
    /\ status["upload"] = "failed"
    /\ status["test_request"] = "failed"
    /\ status["pip_guidellm"] = "pending"
    /\ Started("bench_medusa")

DataArtifacts ==
    { "train_dataset.json", "code_llama31", "code_llama31_medusa",
      "philschmid/code-llama-3-1-8b-text-to-sql-medusa",
      "benchmark_medusa.json", "benchmark_baseline.json" }

RunComplete ==
    /\ status["bench_baseline"] = "ok"
    /\ \A s \in Steps : status[s] \in {"ok", "running"}

NeverMutated ==
    /\ \A p \in Paths : files[p] # Absent => files'[p] = files[p]
    /\ \A r \in Repos : hub[r] # Absent => hub'[r] = hub[r]

\* C5 as stated: every data artifact is written exactly once, by one step,
\* never mutated afterwards, and read exactly once, by the next step.
C5_Original ==
    RunComplete =>
        \A a \in DataArtifacts \ { "code_llama31" } :
            /\ Len(writers[a]) = 1
            /\ Len(readers[a]) = 1
            /\ IndexOf(readers[a][1]) = IndexOf(writers[a][1]) + 1

\* C5, amended: every data artifact is written at most once, by one step
\* (a step that fails may have written its artifact, in part or in whole),
\* and exactly once in a complete run (but for code_llama31), and is
\* never mutated afterwards; the checkpoint is written by the
\* training job, to one directory; each step reads the artifacts its
\* command names when it starts: the training file is read by the training
\* job only, code_llama31_medusa by the upload only, the hub model
\* identifier by the server and by both benchmark runs, and the benchmark
\* results files and code_llama31 by no step.
C5_WrittenOnce ==
    /\ [](\A a \in DataArtifacts :
            /\ Len(writers[a]) <= 1
            /\ Present(a) <=> Len(writers[a]) = 1
            /\ (RunComplete /\ a # "code_llama31") => Len(writers[a]) = 1)
    /\ [](/\ writers["train_dataset.json"] \in { << >>, << "dataset" >> }
          /\ writers["code_llama31"] \in { << >>, << "train" >> }
          /\ writers["code_llama31_medusa"] \in { << >>, << "train" >> }
          /\ Len(writers["code_llama31"]) + Len(writers["code_llama31_medusa"]) <= 1
          /\ writers["philschmid/code-llama-3-1-8b-text-to-sql-medusa"] \in { << >>, << "upload" >> }
          /\ writers["benchmark_medusa.json"] \in { << >>, << "bench_medusa" >> }
          /\ writers["benchmark_baseline.json"] \in { << >>, << "bench_baseline" >> })
    /\ [][NeverMutated]_vars
    /\ [](/\ readers["train_dataset.json"] = (IF Started("train") THEN << "train" >> ELSE << >>)
          /\ readers["code_llama31_medusa"] = (IF Started("upload") THEN << "upload" >> ELSE << >>)
          /\ Len(readers["philschmid/code-llama-3-1-8b-text-to-sql-medusa"]) =
                Cardinality({ s \in {"server_medusa", "bench_medusa", "bench_baseline"} : Started(s) })
          /\ \A i \in 1..Len(readers["philschmid/code-llama-3-1-8b-text-to-sql-medusa"]) :
                readers["philschmid/code-llama-3-1-8b-text-to-sql-medusa"][i]
                    \in {"server_medusa", "bench_medusa", "bench_baseline"}
          /\ readers["code_llama31"] = << >>
          /\ readers["benchmark_medusa.json"] = << >>
          /\ readers["benchmark_baseline.json"] = << >>)

\* A complete run, and a run in which the failed dataset cell left the
\* whole file, are both covered; this is the complete one.
C5_Witness ==
    /\ RunComplete
    /\ Len(readers["philschmid/code-llama-3-1-8b-text-to-sql-medusa"]) = 3
    /\ \A a \in DataArtifacts \ { "code_llama31" } : Len(writers[a]) = 1

\* C7: the benchmark re-run against the baseline server writes its report to
\* benchmark_baseline.json and leaves benchmark_medusa.json unchanged.
C7_BaselineFrame ==
    [][(status["bench_baseline"] = "running" /\ status'["bench_baseline"] = "ok") =>
          /\ "benchmark_baseline.json" \in DOMAIN files
          /\ files["benchmark_baseline.json"] = Absent
          /\ files'["benchmark_baseline.json"] = Content("report", ServedModel)
          /\ files'["benchmark_medusa.json"] = files["benchmark_medusa.json"]]_vars

C7_Witness ==
    /\ status["bench_baseline"] = "ok"
    /\ files["benchmark_medusa.json"] =
          Content("report", "philschmid/code-llama-3-1-8b-text-to-sql-medusa")
    /\ files["benchmark_baseline.json"] =
          Content("report", "philschmid/code-llama-3-1-8b-text-to-sql")

----------------------------------------------------------------------------
(* Properties of the acceleration formula.                                 *)

\* C6: the acceleration is (generated + skipped) / iterations; to two
\* decimal places it is 1.65 for 17687 and 27101 tokens over 27101 iterations.
C6_Acceleration ==
    acc # -1 =>
        /\ 200 * (gen + skip) - loops < 2 * acc * loops
        /\ 2 * acc * loops <= 200 * (gen + skip) + loops
        /\ (gen = 17687 /\ skip = 27101 /\ loops = 27101) => acc = 165

C6_Witness == acc = 165 /\ gen = 17687 /\ skip = 27101 /\ loops = 27101

----------------------------------------------------------------------------
(* Properties of the data preparation.                                     *)

Range(seq) == { seq[i] : i \in 1..Len(seq) }

SplitsDisjoint ==
    Range(Column(dataset.train)) \cap Range(Column(dataset.test)) = {}

\* C8: train_dataset.json holds only the "messages" records of the train
\* split, the benchmark dataset is built only from the test split, and, the
\* splits being disjoint, no benchmarked example is a record of the file.
C8_Unseen ==
    /\ "save" \in dstage =>
          /\ Len(train_file) = Len(dataset.train)
          /\ \A i \in 1..Len(train_file) : train_file[i] = dataset.train[i].messages
    /\ "save_failed" \in dstage =>
          /\ Len(train_file) <= Len(dataset.train)
          /\ \A i \in 1..Len(train_file) : train_file[i] = dataset.train[i].messages
    /\ "map" \in dstage =>
          /\ Len(td) = Len(dataset.test)
          /\ \A i \in 1..Len(td) : td[i].messages = dataset.test[i].messages
    /\ hub_data["philschmid/text-to-sql-dataset-medusa-test-chatml"] =
          (IF "push" \in dstage THEN td ELSE << >>)
    /\ "read" \in dstage =>
          /\ "push" \in dstage
          /\ Len(benchmarked) = Len(dataset.test)
          /\ \A i \in 1..Len(benchmarked) :
                /\ benchmarked[i] = td[i].text
                /\ (Saved /\ SplitsDisjoint) => td[i].messages \notin Range(train_file)

C8_Witness ==
    /\ dstage = {"save", "map", "push", "read"}
    /\ SplitsDisjoint
    /\ Len(benchmarked) = 2
    /\ Len(train_file) = 2

\* C9: the text field is built from exactly the first two messages (system,
\* then user) of the example itself, never from the assistant message, and
\* every other field of the example is unchanged.
C9_TextField ==
    "map" \in dstage =>
        \A i \in 1..Len(td) :
            LET m == dataset.test[i].messages IN
            /\ DOMAIN td[i] = DOMAIN dataset.test[i] \cup {"text"}
            /\ \A k \in DOMAIN dataset.test[i] : td[i][k] = dataset.test[i][k]
            /\ m[1].role = "system" /\ m[2].role = "user"
            /\ td[i].text = apply_chat_template(<< m[1] >>) \o apply_chat_template(<< m[2] >>)
            /\ \A j \in 1..Len(td[i].text) : td[i].text[j] \notin {"assistant", m[3].content}

C9_Witness ==
    /\ "map" \in dstage
    /\ Len(td) = 2
    /\ td[1].messages # td[2].messages
    /\ td[1].text # td[2].text

====
